---- MODULE Spec2Model ----
(***************************************************************************)
(* Model of Italo's queries.py: the credential exchange, the construction  *)
(* of the session client, the page-walking search (search_images) and the  *)
(* single-image mutation (change_location).                                *)
(*                                                                         *)
(* Python values are modelled as follows.  An optional value (a local not  *)
(* yet bound, a function that has not returned) is a sequence of length 0  *)
(* or 1.  A dict is a function on its keys.  The cursor None is the string *)
(* None.  An exception is a record naming its type and the source line     *)
(* that raises it.                                                         *)
(***************************************************************************)
EXTENDS Integers, Sequences, FiniteSets, TLC

\* ---------------------------------------------------------------- bounds
MaxEdges == 2      \* edges the server puts on one page
MaxPages == 2      \* page requests of one search
MaxList  == 2      \* length of the mutated and failed arrays

\* ------------------------------------------------------ program constants
MAX_NODES == 100

\* ------------------------------------------------------------ value sets
None     == "None"
Ids      == {"x", "y"}
Locs     == {"/old", "/new"}
StudyNames == {"C"}
Cursors  == {"c1", "c2"}
Tokens   == {"abc"}
Statuses == {200, 300, 401, 500}
Texts    == {None, "", "HE"}
Firsts   == {0, MAX_NODES, MAX_NODES + 1}
Afters   == {None, "c1"}
Failures == {"denied"}

Secrets == [server_name |-> "halo.test", client_name |-> "italo",
            client_secret |-> "s3cret", client_scope |-> "serviceuser"]

SeqsUpTo(S, n) == UNION {[1..k -> S] : k \in 0..n}

\* response shapes of the search operation
Ancestor(n) == [ancestor |-> [name |-> n]]
\* ancestor lists as the server sends them: none, one, and two in either order
AncestorLists == {<< >>, <<Ancestor("A")>>, <<Ancestor("A"), Ancestor("B")>>,
                  <<Ancestor("B"), Ancestor("A")>>}
StudySet    == [ancestors : AncestorLists, name : StudyNames]
ImageStudies == {<< >>} \cup {<<[study |-> s]>> : s \in StudySet}
Results     == [id : Ids, location : Locs, imageStudies : ImageStudies]
\* an index holds at most one entry per id, so a totalCount above
\* Cardinality(Ids) + 1 adds no case
TotalCounts == 0..(Cardinality(Ids) + 1)
PageInfos   == [endCursor : Cursors, hasNextPage : BOOLEAN]
Connections == [totalCount : TotalCounts, pageInfo : PageInfos]

\* response shapes of the mutation
MutatedNodes == {[node |-> [id |-> i, location |-> l]] : i \in Ids, l \in Locs}
FailedItems  == {[error |-> e] : e \in Failures}
MutationResponses ==
    {[changeImageLocation |-> [mutated |-> m, failed |-> f]] :
        m \in SeqsUpTo(MutatedNodes, MaxList), f \in SeqsUpTo(FailedItems, MaxList)}

\* bodies the token endpoint answers with: JSON objects, or text that is no JSON
JsonBodies == {[access_token |-> t] : t \in Tokens} \cup {[error |-> "invalid_client"]}
Bodies == {[json |-> TRUE, data |-> d] : d \in JsonBodies}
            \cup {[json |-> FALSE, data |-> [k \in {} |-> 0]]}

NoError == [type |-> "none", line |-> 0]
Raise(t, l) == [type |-> t, line |-> l]

EmptyDict == [k \in {} |-> 0]

VARIABLES
    pc,           \* position of the caller's flow
    status,       \* HTTP status the token endpoint answered with (optional)
    credentials,  \* value returned by get_credentials (optional)
    tokenPosts,   \* requests made to the token endpoint
    clientCalls,  \* calls of get_client
    session,      \* value returned by get_client (optional)
    op,           \* operation in progress or last finished
    variable_values, \* the operation's vars dict, passed as variable_values
    sent,         \* requests the operation executed on the session, in order
    images,       \* search_images' images dict
    edges,        \* edges of the current page folded so far
    total_count,  \* search_images' total_count local (optional)
    response,     \* change_location's response local (optional)
    result,       \* value the operation returned (optional)
    error,        \* exception the operation (or the flow) raised
    repeated,     \* history: the server served an id it had served before
    lastRec,      \* history: id -> the last well-formed result served with that id
    malformed,    \* history: a result with an empty imageStudies list was served
    executeFailed,\* history: a session.execute of the operation has raised
    args,         \* history: the arguments the operation was called with
    pageLog,      \* history: what the search has read of every page's pageInfo
    calls         \* the locals of the two interleaved search_images calls

vars == <<pc, status, credentials, tokenPosts, clientCalls, session, op,
          variable_values, sent, images, edges, total_count, response, result, error,
          repeated, lastRec, malformed, executeFailed, args, pageLog, calls>>

flowVars   == <<status, credentials, tokenPosts, clientCalls, session>>
searchVars == <<images, edges, total_count, repeated, lastRec, malformed>>
histVars   == <<executeFailed, args, pageLog>>

\* the two callers that run search_images on one session, and the locals of
\* a call that has not started
Callers == {1, 2}
NotCalled ==
    [pc |-> "idle", variable_values |-> EmptyDict, images |-> EmptyDict,
     edges |-> 0, queries |-> 0, total_count |-> << >>, result |-> << >>,
     error |-> NoError,
     \* history: the arguments, the cursor this call's own responses lead to,
     \* the last well-formed result served to this call per id, and whether a
     \* response reached this call while the other call was waiting for one
     args |-> EmptyDict, cursor |-> None, lastRec |-> EmptyDict,
     overlapped |-> FALSE]

Init ==
    /\ calls = [c \in Callers |-> NotCalled]
    /\ pc = "start"
    /\ status = << >>
    /\ credentials = << >>
    /\ tokenPosts = 0
    /\ clientCalls = 0
    /\ session = << >>
    /\ op = "none"
    /\ variable_values = EmptyDict
    /\ sent = << >>
    /\ images = EmptyDict
    /\ edges = 0
    /\ total_count = << >>
    /\ response = << >>
    /\ result = << >>
    /\ error = NoError
    /\ repeated = FALSE
    /\ lastRec = EmptyDict
    /\ malformed = FALSE
    /\ executeFailed = FALSE
    /\ args = EmptyDict
    /\ pageLog = << >>

\* ------------------------------------------------------ get_credentials
\* One POST to the token endpoint.  raise_for_status=True makes aiohttp raise
\* ClientResponseError when the final response is not ok, and a response is
\* ok when its status is below 400.  Redirects are followed by aiohttp; a
\* 3xx status it does not follow (300 here) arrives as the final response.
\* Otherwise the body is decoded by response.json(), which raises when the
\* body is no JSON, and is returned as it is.
GetCredentials ==
    /\ pc = "start"
    /\ \E st \in Statuses, body \in Bodies :
        /\ tokenPosts' = tokenPosts + 1
        /\ status' = <<st>>
        /\ IF st >= 400
             THEN /\ error' = Raise("ClientResponseError", 64)
                  /\ credentials' = credentials
                  /\ pc' = "failed"
           ELSE IF ~body.json
             THEN /\ error' = Raise("ContentTypeError", 66)
                  /\ credentials' = credentials
                  /\ pc' = "failed"
             ELSE /\ error' = error
                  /\ credentials' = <<body.data>>
                  /\ pc' = "exchanged"
    /\ UNCHANGED <<clientCalls, session, op, variable_values, sent, response, result>>
    /\ UNCHANGED searchVars
    /\ UNCHANGED histVars
    /\ UNCHANGED calls

\* ------------------------------------------------------------ get_client
\* Builds the transport and the client; no request is made.  Reading
\* credentials['access_token'] raises KeyError when the body lacks it.
Authorization(creds) == "bearer " \o creds.access_token

GetClient ==
    /\ pc = "exchanged"
    /\ clientCalls' = clientCalls + 1
    /\ IF "access_token" \in DOMAIN credentials[1]
         THEN /\ session' = <<[url |-> "wss://" \o Secrets.server_name \o "/graphql",
                               authorization |-> Authorization(credentials[1])]>>
              /\ error' = error
              /\ pc' = "idle"
         ELSE /\ session' = session
              /\ error' = Raise("KeyError", 40)
              /\ pc' = "failed"
    /\ UNCHANGED <<status, credentials, tokenPosts, op, variable_values, sent, response, result>>
    /\ UNCHANGED searchVars
    /\ UNCHANGED histVars
    /\ UNCHANGED calls

\* --------------------------------------------------------- search_images
\* images[result["id"]] = {"location": ..., "studies": ...}
RECURSIVE StudiesLoopForward(_, _, _)
\* the loop without reversed(): the ancestors in the order of the response
StudiesLoopForward(studies, ancestors, i) ==
    IF i = 0 THEN studies
    ELSE StudiesLoopForward(
             studies \o "/" \o ancestors[Len(ancestors) - i + 1].ancestor.name,
             ancestors, i - 1)

RECURSIVE StudiesLoop(_, _, _)
\* for parent in reversed(study["ancestors"]): studies += "/" + name
StudiesLoop(studies, ancestors, i) ==
    IF i = 0 THEN studies
    ELSE StudiesLoop(studies \o "/" \o ancestors[i].ancestor.name, ancestors, i - 1)

\* studies initialised to "/" instead of ""
StudiesLeadingSlash(study) ==
    StudiesLoop("/", study.ancestors, Len(study.ancestors)) \o "/" \o study.name

\* studies = ""; the loop over the reversed ancestors; studies += "/" + study["name"]
Studies(study) ==
    StudiesLoop("", study.ancestors, Len(study.ancestors)) \o "/" \o study.name

\* an insertion that keeps the entry an id already has
InsertFirstWins(dict, r) ==
    dict @@ (r.id :> [location |-> r.location,
                      studies |-> Studies(r.imageStudies[1].study)])

\* images = {id: ...} instead of images[id] = ...: the other entries are lost
InsertAlone(dict, r) ==
    r.id :> [location |-> r.location,
             studies |-> Studies(r.imageStudies[1].study)]

\* the dict assignment of line 164: a later value replaces an earlier one
Insert(dict, r) ==
    (r.id :> [location |-> r.location,
              studies |-> Studies(r.imageStudies[1].study)]) @@ dict

\* what lines 166-168 read of a pageInfo: hasNextPage, and endCursor only
\* when hasNextPage is true
PageRead(page) ==
    [hasNextPage |-> page.hasNextPage,
     endCursor |-> IF page.hasNextPage THEN page.endCursor ELSE None]

\* SearchCall without the asserts of lines 115-117
SearchCallNoAsserts ==
    /\ pc = "idle"
    /\ op' = "search"
    /\ sent' = << >>
    /\ images' = EmptyDict
    /\ edges' = 0
    /\ total_count' = << >>
    /\ response' = << >>
    /\ result' = << >>
    /\ repeated' = FALSE
    /\ lastRec' = EmptyDict
    /\ malformed' = FALSE
    /\ executeFailed' = FALSE
    /\ pageLog' = << >>
    /\ \E ses \in {<< >>, session}, text \in Texts, first \in Firsts, after \in Afters :
      /\ args' = [session |-> ses, text |-> text, first |-> first, after |-> after]
      /\ error' = NoError
      /\ variable_values' = [text |-> text, first |-> first, after |-> after]
      /\ pc' = "send"
    /\ UNCHANGED flowVars
    /\ UNCHANGED calls

\* The call: the three asserts, the vars dict, images = {}.
SearchCall ==
    /\ pc = "idle"
    /\ op' = "search"
    /\ sent' = << >>
    /\ images' = EmptyDict
    /\ edges' = 0
    /\ total_count' = << >>
    /\ response' = << >>
    /\ result' = << >>
    /\ repeated' = FALSE
    /\ lastRec' = EmptyDict
    /\ malformed' = FALSE
    /\ executeFailed' = FALSE
    /\ pageLog' = << >>
    /\ \E ses \in {<< >>, session}, text \in Texts, first \in Firsts, after \in Afters :
      /\ args' = [session |-> ses, text |-> text, first |-> first, after |-> after]
      /\
        IF ses = << >>
          THEN /\ error' = Raise("AssertionError", 115)
               /\ variable_values' = EmptyDict
               /\ pc' = "idle"
        ELSE IF text \in {None, ""}
          THEN /\ error' = Raise("AssertionError", 116)
               /\ variable_values' = EmptyDict
               /\ pc' = "idle"
        ELSE IF first = 0
          THEN /\ error' = Raise("AssertionError", 117)
               /\ variable_values' = EmptyDict
               /\ pc' = "idle"
          ELSE /\ error' = NoError
               /\ variable_values' = [text |-> text, first |-> first, after |-> after]
               /\ pc' = "send"
    /\ UNCHANGED flowVars
    /\ UNCHANGED calls

\* session.execute(query, variable_values=vars): the request leaves
SearchSend ==
    /\ pc = "send"
    /\ Len(sent) < MaxPages
    /\ sent' = Append(sent, [kind |-> "query", variable_values |-> variable_values])
    /\ pc' = "await"
    /\ UNCHANGED <<op, variable_values, response, result, error>>
    /\ UNCHANGED flowVars
    /\ UNCHANGED searchVars
    /\ UNCHANGED histVars
    /\ UNCHANGED calls

\* SearchReceive with a retry: a failed execute is caught and the request
\* is made again
SearchReceiveRetry ==
    /\ pc = "await"
    /\ \/ /\ error' = error
          /\ executeFailed' = TRUE
          /\ pc' = "send"
          /\ edges' = edges
       \/ /\ error' = error
          /\ executeFailed' = executeFailed
          /\ pc' = "fold"
          /\ edges' = 0
    /\ UNCHANGED <<op, variable_values, sent, response, result, args, pageLog>>
    /\ UNCHANGED <<images, total_count, repeated, lastRec, malformed>>
    /\ UNCHANGED flowVars
    /\ UNCHANGED calls

\* the await of line 153 ends: execute raises, or a response arrives and
\* the loop over its edges starts.  The response is read once, from left to
\* right, so the model draws each edge when the loop reaches it and the
\* rest of imageSearch when the loop has ended.
SearchReceive ==
    /\ pc = "await"
    /\ \/ /\ error' = Raise("TransportError", 153)
          /\ executeFailed' = TRUE
          /\ pc' = "idle"
          /\ edges' = edges
       \/ /\ error' = error
          /\ executeFailed' = executeFailed
          /\ pc' = "fold"
          /\ edges' = 0
    /\ UNCHANGED <<op, variable_values, sent, response, result, args, pageLog>>
    /\ UNCHANGED <<images, total_count, repeated, lastRec, malformed>>
    /\ UNCHANGED flowVars
    /\ UNCHANGED calls

\* FoldEdge in which the failure on an empty imageStudies list also drops
\* the session
FoldEdgeInvalidates ==
    /\ pc = "fold"
    /\ edges < MaxEdges
    /\ \E r \in Results :
        /\ repeated' = (repeated \/ r.id \in DOMAIN lastRec)
        /\ IF r.imageStudies = << >>
             THEN /\ error' = Raise("IndexError", 158)
                  /\ malformed' = TRUE
                  /\ pc' = "idle"
                  /\ session' = << >>
                  /\ UNCHANGED <<images, edges, lastRec>>
             ELSE /\ images' = Insert(images, r)
                  /\ lastRec' = (r.id :> r) @@ lastRec
                  /\ edges' = edges + 1
                  /\ UNCHANGED <<error, malformed, pc, session>>
    /\ UNCHANGED <<op, variable_values, sent, total_count, response, result>>
    /\ UNCHANGED <<status, credentials, tokenPosts, clientCalls>>
    /\ UNCHANGED histVars
    /\ UNCHANGED calls

\* one iteration of `for edge in search["edges"]`
FoldEdge ==
    /\ pc = "fold"
    /\ edges < MaxEdges
    /\ \E r \in Results :
        /\ repeated' = (repeated \/ r.id \in DOMAIN lastRec)
        /\ IF r.imageStudies = << >>
             THEN /\ error' = Raise("IndexError", 158)
                  /\ malformed' = TRUE
                  /\ pc' = "idle"
                  /\ UNCHANGED <<images, edges, lastRec>>
             ELSE /\ images' = Insert(images, r)
                  /\ lastRec' = (r.id :> r) @@ lastRec
                  /\ edges' = edges + 1
                  /\ UNCHANGED <<error, malformed, pc>>
    /\ UNCHANGED <<op, variable_values, sent, total_count, response, result>>
    /\ UNCHANGED flowVars
    /\ UNCHANGED histVars
    /\ UNCHANGED calls

\* EndPage with images = {} inside the loop: every page starts a new dict
EndPageClears ==
    /\ pc = "fold"
    /\ \E conn \in Connections :
        /\ pageLog' = Append(pageLog, PageRead(conn.pageInfo))
        /\ IF conn.pageInfo.hasNextPage
             THEN /\ variable_values' =
                        [variable_values EXCEPT !.after = conn.pageInfo.endCursor]
                  /\ pc' = "send"
                  /\ edges' = 0
                  /\ images' = EmptyDict
                  /\ UNCHANGED <<total_count, result, error>>
             ELSE /\ pc' = "idle"
                  /\ total_count' = <<conn.totalCount>>
                  /\ IF conn.totalCount = Cardinality(DOMAIN images)
                       THEN /\ result' = <<images>>
                            /\ error' = error
                       ELSE /\ result' = result
                            /\ error' = Raise("AssertionError", 172)
                  /\ UNCHANGED <<variable_values, edges, images>>
    /\ UNCHANGED <<op, sent, response, repeated, lastRec, malformed>>
    /\ UNCHANGED <<executeFailed, args>>
    /\ UNCHANGED flowVars
    /\ UNCHANGED calls

\* EndPage without the assignment of line 168: the cursor is never advanced
EndPageKeepsCursor ==
    /\ pc = "fold"
    /\ \E conn \in Connections :
        /\ pageLog' = Append(pageLog, PageRead(conn.pageInfo))
        /\ IF conn.pageInfo.hasNextPage
             THEN /\ pc' = "send"
                  /\ edges' = 0
                  /\ UNCHANGED <<variable_values, total_count, result, error>>
             ELSE /\ pc' = "idle"
                  /\ total_count' = <<conn.totalCount>>
                  /\ IF conn.totalCount = Cardinality(DOMAIN images)
                       THEN /\ result' = <<images>>
                            /\ error' = error
                       ELSE /\ result' = result
                            /\ error' = Raise("AssertionError", 172)
                  /\ UNCHANGED <<variable_values, edges>>
    /\ UNCHANGED <<op, sent, response, images, repeated, lastRec, malformed>>
    /\ UNCHANGED <<executeFailed, args>>
    /\ UNCHANGED flowVars
    /\ UNCHANGED calls

\* EndPage that tests the truth of endCursor instead of hasNextPage: every
\* page is followed by another request
EndPageAlwaysContinues ==
    /\ pc = "fold"
    /\ \E conn \in Connections :
        /\ pageLog' = Append(pageLog, PageRead(conn.pageInfo))
        /\ variable_values' =
              [variable_values EXCEPT !.after = conn.pageInfo.endCursor]
        /\ pc' = "send"
        /\ edges' = 0
        /\ UNCHANGED <<total_count, result, error>>
    /\ UNCHANGED <<op, sent, response, images, repeated, lastRec, malformed>>
    /\ UNCHANGED <<executeFailed, args>>
    /\ UNCHANGED flowVars
    /\ UNCHANGED calls

\* EndPage without the assert of line 172
EndPageNoAssert ==
    /\ pc = "fold"
    /\ \E conn \in Connections :
        /\ pageLog' = Append(pageLog, PageRead(conn.pageInfo))
        /\ IF conn.pageInfo.hasNextPage
             THEN /\ variable_values' =
                        [variable_values EXCEPT !.after = conn.pageInfo.endCursor]
                  /\ pc' = "send"
                  /\ edges' = 0
                  /\ UNCHANGED <<total_count, result, error>>
             ELSE /\ pc' = "idle"
                  /\ total_count' = <<conn.totalCount>>
                  /\ result' = <<images>>
                  /\ error' = error
                  /\ UNCHANGED <<variable_values, edges>>
    /\ UNCHANGED <<op, sent, response, images, repeated, lastRec, malformed>>
    /\ UNCHANGED <<executeFailed, args>>
    /\ UNCHANGED flowVars
    /\ UNCHANGED calls

\* the edges are exhausted: pageInfo decides between the next page and the
\* completeness check of the last page
EndPage ==
    /\ pc = "fold"
    /\ \E conn \in Connections :
        /\ pageLog' = Append(pageLog, PageRead(conn.pageInfo))
        /\ IF conn.pageInfo.hasNextPage
             THEN /\ variable_values' =
                        [variable_values EXCEPT !.after = conn.pageInfo.endCursor]
                  /\ pc' = "send"
                  /\ edges' = 0
                  /\ UNCHANGED <<total_count, result, error>>
             ELSE /\ pc' = "idle"
                  /\ total_count' = <<conn.totalCount>>
                  /\ IF conn.totalCount = Cardinality(DOMAIN images)
                       THEN /\ result' = <<images>>
                            /\ error' = error
                       ELSE /\ result' = result
                            /\ error' = Raise("AssertionError", 172)
                  /\ UNCHANGED <<variable_values, edges>>
    /\ UNCHANGED <<op, sent, response, images, repeated, lastRec, malformed>>
    /\ UNCHANGED <<executeFailed, args>>
    /\ UNCHANGED flowVars
    /\ UNCHANGED calls

\* ------------------------------------------------------- change_location
\* The call: the three asserts, the vars dict, image = {}.
ChangeCall ==
    /\ pc = "idle"
    /\ op' = "change"
    /\ sent' = << >>
    /\ images' = EmptyDict
    /\ edges' = 0
    /\ total_count' = << >>
    /\ response' = << >>
    /\ result' = << >>
    /\ repeated' = FALSE
    /\ lastRec' = EmptyDict
    /\ malformed' = FALSE
    /\ executeFailed' = FALSE
    /\ pageLog' = << >>
    /\ \E ses \in {<< >>, session}, image_id \in Ids \cup {None, ""},
          new_location \in {None, "", "/new"} :
      /\ args' = [session |-> ses, image_id |-> image_id, new_location |-> new_location]
      /\
        IF ses = << >>
          THEN /\ error' = Raise("AssertionError", 79)
               /\ variable_values' = EmptyDict
               /\ pc' = "idle"
        ELSE IF image_id \in {None, ""}
          THEN /\ error' = Raise("AssertionError", 80)
               /\ variable_values' = EmptyDict
               /\ pc' = "idle"
        ELSE IF new_location \in {None, ""}
          THEN /\ error' = Raise("AssertionError", 81)
               /\ variable_values' = EmptyDict
               /\ pc' = "idle"
          ELSE /\ error' = NoError
               /\ variable_values' =
                     [input |-> [imageId |-> image_id, newLocation |-> new_location]]
               /\ pc' = "mutate"
    /\ UNCHANGED flowVars
    /\ UNCHANGED calls

\* session.execute(query, variable_values=vars): the mutation leaves
ChangeSend ==
    /\ pc = "mutate"
    /\ sent' = Append(sent, [kind |-> "mutation", variable_values |-> variable_values])
    /\ pc' = "mawait"
    /\ UNCHANGED <<op, variable_values, response, result, error>>
    /\ UNCHANGED flowVars
    /\ UNCHANGED searchVars
    /\ UNCHANGED histVars
    /\ UNCHANGED calls

\* the dict keyed by the image_id of the request
ImageByRequest(resp) ==
    LET node == resp.changeImageLocation.mutated[1].node
    IN  variable_values.input.imageId :>
            [location |-> node.location,
             error |-> resp.changeImageLocation.failed]

\* the one-entry dict of lines 102-106
Image(resp) ==
    LET node == resp.changeImageLocation.mutated[1].node
    IN  node.id :> [location |-> node.location,
                    error |-> resp.changeImageLocation.failed]

\* the await of line 101 ends: execute raises, or the response is read
ChangeReceive ==
    /\ pc = "mawait"
    /\ pc' = "idle"
    /\ \/ /\ error' = Raise("TransportError", 101)
          /\ executeFailed' = TRUE
          /\ UNCHANGED <<response, result>>
       \/ \E resp \in MutationResponses :
            /\ response' = <<resp>>
            /\ executeFailed' = executeFailed
            /\ IF resp.changeImageLocation.mutated = << >>
                 THEN /\ error' = Raise("IndexError", 102)
                      /\ result' = result
                 ELSE /\ error' = error
                      /\ result' = <<Image(resp)>>
    /\ UNCHANGED <<op, variable_values, sent, args, pageLog>>
    /\ UNCHANGED flowVars
    /\ UNCHANGED searchVars
    /\ UNCHANGED calls

\* ------------------------------------- two search_images calls, interleaved
\* Both coroutines run on one event loop: a call runs from the end of one
\* await to the start of the next without the other call taking a step.
Suspended(c) ==
    \A d \in Callers \ {c} : calls[d].pc \in {"idle", "await", "done"}

\* each caller's text; results without ancestors, well-formed or not
TextOf(c) == IF c = 1 THEN "HE" ELSE "IF"
PlainResults ==
    {r \in Results : /\ r.location = "/old"
                     /\ \/ r.imageStudies = << >>
                        \/ r.imageStudies[1].study.ancestors = << >>}
\* a totalCount above the number of ids differs from every index size
PlainConnections ==
    {conn \in Connections : conn.totalCount <= Cardinality(Ids)}

\* the call, from the first page (after=None): the asserts hold, vars is
\* built, images = {}
TwoCall(c) ==
    /\ pc = "idle"
    /\ session # << >>
    /\ calls[c].pc = "idle"
    /\ Suspended(c)
    /\ LET after == None IN
        calls' = [calls EXCEPT ![c] =
                    [@ EXCEPT !.pc = "send",
                              !.variable_values =
                                  [text |-> TextOf(c), first |-> MAX_NODES,
                                   after |-> after],
                              !.images = EmptyDict,
                              !.args = [text |-> TextOf(c), first |-> MAX_NODES,
                                        after |-> after],
                              !.cursor = after]]
    /\ UNCHANGED <<pc, op, variable_values, sent, response, result, error>>
    /\ UNCHANGED <<flowVars, searchVars, histVars>>

\* session.execute(query, variable_values=vars): the request leaves
TwoSend(c) ==
    /\ calls[c].pc = "send"
    /\ calls[c].queries < MaxPages
    /\ calls' = [calls EXCEPT ![c] =
                    [@ EXCEPT !.pc = "await", !.queries = @ + 1]]
    /\ UNCHANGED <<pc, op, variable_values, sent, response, result, error>>
    /\ UNCHANGED <<flowVars, searchVars, histVars>>

\* the await of line 153 ends for the call that made the request
TwoReceive(c) ==
    /\ calls[c].pc = "await"
    /\ Suspended(c)
    /\ \/ calls' = [calls EXCEPT ![c] =
                      [@ EXCEPT !.pc = "done",
                                !.error = Raise("TransportError", 153)]]
       \/ calls' = [calls EXCEPT ![c] =
                      [@ EXCEPT !.pc = "fold", !.edges = 0,
                                !.overlapped =
                                    (@ \/ \E d \in Callers \ {c} :
                                              calls[d].pc = "await")]]
    /\ UNCHANGED <<pc, op, variable_values, sent, response, result, error>>
    /\ UNCHANGED <<flowVars, searchVars, histVars>>

\* TwoFold with one images dict for all calls (images as a mutable default
\* argument or a module-level dict)
TwoFoldShared(c) ==
    /\ calls[c].pc = "fold"
    /\ calls[c].edges < MaxEdges
    /\ \E r \in PlainResults :
        IF r.imageStudies = << >>
          THEN calls' = [calls EXCEPT ![c] =
                           [@ EXCEPT !.pc = "done",
                                     !.error = Raise("IndexError", 158)]]
          ELSE calls' = [d \in Callers |->
                           IF d = c
                             THEN [calls[d] EXCEPT
                                     !.images = Insert(@, r),
                                     !.lastRec = (r.id :> r) @@ @,
                                     !.edges = @ + 1]
                             ELSE [calls[d] EXCEPT !.images = Insert(@, r)]]
    /\ UNCHANGED <<pc, op, variable_values, sent, response, result, error>>
    /\ UNCHANGED <<flowVars, searchVars, histVars>>

\* one iteration of `for edge in search["edges"]` in call c
TwoFold(c) ==
    /\ calls[c].pc = "fold"
    /\ calls[c].edges < MaxEdges
    /\ \E r \in PlainResults :
        IF r.imageStudies = << >>
          THEN calls' = [calls EXCEPT ![c] =
                           [@ EXCEPT !.pc = "done",
                                     !.error = Raise("IndexError", 158)]]
          ELSE calls' = [calls EXCEPT ![c] =
                           [@ EXCEPT !.images = Insert(@, r),
                                     !.lastRec = (r.id :> r) @@ @,
                                     !.edges = @ + 1]]
    /\ UNCHANGED <<pc, op, variable_values, sent, response, result, error>>
    /\ UNCHANGED <<flowVars, searchVars, histVars>>

\* the edges of call c's page are exhausted: next page, or the completeness
\* check and the return
TwoEnd(c) ==
    /\ calls[c].pc = "fold"
    /\ \E conn \in PlainConnections :
        IF conn.pageInfo.hasNextPage
          THEN calls' = [calls EXCEPT ![c] =
                           [@ EXCEPT !.variable_values.after =
                                         conn.pageInfo.endCursor,
                                     !.cursor = conn.pageInfo.endCursor,
                                     !.pc = "send", !.edges = 0]]
          ELSE calls' = [calls EXCEPT ![c] =
                           [@ EXCEPT !.pc = "done",
                                     !.total_count = <<conn.totalCount>>,
                                     !.result =
                                         IF conn.totalCount
                                              = Cardinality(DOMAIN calls[c].images)
                                           THEN <<calls[c].images>> ELSE @,
                                     !.error =
                                         IF conn.totalCount
                                              = Cardinality(DOMAIN calls[c].images)
                                           THEN @ ELSE Raise("AssertionError", 172)]]
    /\ UNCHANGED <<pc, op, variable_values, sent, response, result, error>>
    /\ UNCHANGED <<flowVars, searchVars, histVars>>

\* the session has been built from a token; no call has started
InitTwo ==
    /\ calls = [c \in Callers |-> NotCalled]
    /\ pc = "idle"
    /\ status = <<200>>
    /\ credentials = <<[access_token |-> "abc"]>>
    /\ tokenPosts = 1
    /\ clientCalls = 1
    /\ session = <<[url |-> "wss://" \o Secrets.server_name \o "/graphql",
                    authorization |-> Authorization(credentials[1])]>>
    /\ op = "none"
    /\ variable_values = EmptyDict
    /\ sent = << >>
    /\ images = EmptyDict
    /\ edges = 0
    /\ total_count = << >>
    /\ response = << >>
    /\ result = << >>
    /\ error = NoError
    /\ repeated = FALSE
    /\ lastRec = EmptyDict
    /\ malformed = FALSE
    /\ executeFailed = FALSE
    /\ args = EmptyDict
    /\ pageLog = << >>

NextTwo ==
    \/ \E c \in Callers : TwoCall(c)
    \/ \E c \in Callers : TwoSend(c)
    \/ \E c \in Callers : TwoReceive(c)
    \/ \E c \in Callers : TwoFold(c)
    \/ \E c \in Callers : TwoEnd(c)

SpecTwo == InitTwo /\ [][NextTwo]_vars

Next ==
    \/ GetCredentials
    \/ GetClient
    \/ SearchCall
    \/ SearchSend
    \/ SearchReceive
    \/ FoldEdge
    \/ EndPage
    \/ ChangeCall
    \/ ChangeSend
    \/ ChangeReceive

Spec == Init /\ [][Next]_vars

\* The event loop resumes the coroutine: a request that can be made is made,
\* a request that was made is answered (by a response or an exception), and
\* the edges of a page come to an end.
FairSpec ==
    /\ Spec
    /\ WF_vars(SearchSend)
    /\ WF_vars(SearchReceive)
    /\ WF_vars(EndPage)
    /\ WF_vars(ChangeSend)
    /\ WF_vars(ChangeReceive)

TypeOK ==
    /\ pc \in {"start", "exchanged", "failed", "idle", "send", "await", "fold",
               "mutate", "mawait"}
    /\ edges \in 0..MaxEdges
    /\ repeated \in BOOLEAN
    /\ Len(sent) <= MaxPages

\* ================================================================ claims
SearchEnded == op = "search" /\ pc = "idle"
ChangeEnded == op = "change" /\ pc = "idle"

\* the response record an index entry comes from, and its study
StudyOf(id) == lastRec[id].imageStudies[1].study
Name(ancestors, i) == ancestors[i].ancestor.name

\* C1: when the server has served results with pairwise distinct ids (each
\* with its imageStudies entry) over one or more pages and the last page
\* reports their number N as totalCount, search_images returns without error
\* an index of exactly N entries, one per served id.
C1_CompleteIndex ==
    (SearchEnded /\ total_count # << >> /\ ~repeated
        /\ total_count[1] = Cardinality(DOMAIN lastRec))
    => /\ error = NoError
       /\ result # << >>
       /\ DOMAIN result[1] = DOMAIN lastRec
       /\ Cardinality(DOMAIN result[1]) = total_count[1]

\* two pages, two distinct ids, both in the returned index
C1_Witness ==
    /\ SearchEnded
    /\ error = NoError
    /\ result # << >>
    /\ ~repeated
    /\ Len(sent) = 2
    /\ DOMAIN result[1] = Ids

\* C2 as stated: for ancestors [A, B] in the order of the response and study
\* name C the stored studies value is "/A/B/C".
C2_ResponseOrder ==
    op = "search" =>
        \A id \in DOMAIN images :
            LET study == StudyOf(id)
            IN  Len(study.ancestors) = 2 =>
                    images[id].studies =
                        "/" \o Name(study.ancestors, 1) \o "/"
                            \o Name(study.ancestors, 2) \o "/" \o study.name

\* C2 as amended: for ancestors [A, B] in the order of the response and study
\* name C the stored studies value is "/B/A/C": the ancestor names in the
\* reverse of the order of the response, then the study's own name, each
\* segment prefixed with "/".
C2_ReverseOrder ==
    op = "search" =>
        \A id \in DOMAIN images :
            LET study == StudyOf(id)
            IN  Len(study.ancestors) = 2 =>
                    images[id].studies =
                        "/" \o Name(study.ancestors, 2) \o "/"
                            \o Name(study.ancestors, 1) \o "/" \o study.name

\* a returned record whose study has two ancestors with different names
C2_Witness ==
    /\ SearchEnded
    /\ result # << >>
    /\ \E id \in DOMAIN result[1] :
        /\ Len(StudyOf(id).ancestors) = 2
        /\ Name(StudyOf(id).ancestors, 1) # Name(StudyOf(id).ancestors, 2)
        /\ result[1][id].studies = "/B/A/C"

\* C3: a search that ends on a last page whose totalCount differs from the
\* number of entries in the index fails at the completeness check (the
\* AssertionError of line 172, the code's ConsistencyError) and returns no
\* index; every index that search returns has as many entries as the
\* totalCount of the last page fetched.
C3_Consistency ==
    /\ (SearchEnded /\ total_count # << >>
            /\ total_count[1] # Cardinality(DOMAIN images))
        => (error = Raise("AssertionError", 172) /\ result = << >>)
    /\ (SearchEnded /\ result # << >>)
        => /\ total_count # << >>
           /\ Cardinality(DOMAIN result[1]) = total_count[1]

\* the check fails on the last page of a search of two pages
C3_Witness ==
    /\ SearchEnded
    /\ Len(sent) = 2
    /\ total_count # << >>
    /\ images # EmptyDict
    /\ error = Raise("AssertionError", 172)
    /\ result = << >>

\* C4 as stated: change_location given a response with an empty mutated
\* array fails, and not with the index-out-of-range fault of mutated[0].
C4_MutationError ==
    (ChangeEnded /\ response # << >>
        /\ response[1].changeImageLocation.mutated = << >>)
    => (error # NoError /\ error.type # "IndexError")

\* C5: for every response with a non-empty mutated array change_location has
\* executed exactly one mutation and returns a map of one entry, keyed by
\* the id of mutated[0].node, with that node's location and the whole failed
\* array as error, whether failed is empty or not.
C5_OneEntry ==
    (ChangeEnded /\ response # << >>
        /\ response[1].changeImageLocation.mutated # << >>)
    => LET r == response[1].changeImageLocation
           node == r.mutated[1].node
       IN  /\ error = NoError
           /\ Len(sent) = 1
           /\ sent[1].kind = "mutation"
           /\ result # << >>
           /\ DOMAIN result[1] = {node.id}
           /\ result[1][node.id] = [location |-> node.location, error |-> r.failed]

\* a partial success whose node id is not the requested image_id
C5_Witness ==
    /\ ChangeEnded
    /\ result # << >>
    /\ response[1].changeImageLocation.failed # << >>
    /\ response[1].changeImageLocation.mutated[1].node.id
           # variable_values.input.imageId
    /\ variable_values.input.imageId \notin DOMAIN result[1]

\* C6: a repeated id does not make search fail.  Every index entry holds the
\* location and studies of the last result served with its id; a search that
\* fails has failed at its asserts, at execute, at an empty imageStudies list
\* or at a totalCount that differs from the number of entries; and a search
\* whose last page reports the number of distinct ids served returns the
\* index, repeated ids or not.
C6_LastWriteWins ==
    /\ op = "search" =>
        \A id \in DOMAIN images :
            images[id] = [location |-> lastRec[id].location,
                          studies |-> Studies(StudyOf(id))]
    /\ (SearchEnded /\ error # NoError) =>
        \/ error \in {Raise("AssertionError", 115), Raise("AssertionError", 116),
                      Raise("AssertionError", 117), Raise("TransportError", 153)}
        \/ error = Raise("IndexError", 158) /\ malformed
        \/ /\ error = Raise("AssertionError", 172)
           /\ total_count[1] # Cardinality(DOMAIN lastRec)
    /\ (SearchEnded /\ total_count # << >>
            /\ total_count[1] = Cardinality(DOMAIN lastRec))
        => (error = NoError /\ result = <<images>>)

\* a search of two pages that was served an id twice and returned its index
C6_Witness ==
    /\ SearchEnded
    /\ repeated
    /\ Len(sent) = 2
    /\ error = NoError
    /\ result # << >>
    /\ DOMAIN result[1] = DOMAIN lastRec

\* C7 as stated: no query carrying first > 100 is sent to the server.
C7_CeilingEnforced ==
    \A i \in 1..Len(sent) :
        sent[i].kind = "query" => sent[i].variable_values.first <= MAX_NODES

\* C8 as stated: when an edge has an empty imageStudies list search fails,
\* and not with the index-out-of-range fault of imageStudies[0].
C8_MalformedRecord ==
    (SearchEnded /\ malformed)
    => (error # NoError /\ error.type # "IndexError" /\ result = << >>)

\* C9 as stated: a session is constructed only after an exchange that
\* succeeded and with its access_token as bearer token; when the token
\* endpoint answers with a status outside 200..299 the exchange fails, is not
\* repeated, and get_client is not called.
C9_TokenPrecedesSession ==
    /\ tokenPosts <= 1
    /\ session # << >> =>
        /\ credentials # << >>
        /\ session[1].authorization = "bearer " \o credentials[1].access_token
    /\ (status # << >> /\ (status[1] < 200 \/ status[1] > 299)) =>
        /\ error \in {Raise("ClientResponseError", 64), Raise("ContentTypeError", 66)}
        /\ clientCalls = 0
        /\ session = << >>

\* C10: for a study without ancestors and with name C the stored studies
\* value is "/C".
C10_NoAncestors ==
    op = "search" =>
        \A id \in DOMAIN images :
            StudyOf(id).ancestors = << >> =>
                images[id].studies = "/" \o StudyOf(id).name

\* a returned record whose study has no ancestors
C10_Witness ==
    /\ SearchEnded
    /\ result # << >>
    /\ \E id \in DOMAIN result[1] :
        /\ StudyOf(id).ancestors = << >>
        /\ result[1][id].studies = "/C"

\* C11: from one step of the page-walking loop to the next the index keeps
\* every id it has, so its size never decreases, also when the server repeats
\* ids or serves a page twice.
C11_Monotone ==
    [][(op = "search" /\ pc \in {"send", "await", "fold"})
        => /\ DOMAIN images \subseteq DOMAIN images'
           /\ Cardinality(DOMAIN images') >= Cardinality(DOMAIN images)]_vars

\* on the second page, after an id was served again
C11_Witness ==
    /\ op = "search"
    /\ pc = "fold"
    /\ Len(sent) = 2
    /\ repeated
    /\ edges > 0
    /\ images # EmptyDict

\* C12: no retries.  Once an execute of the operation has raised, the
\* operation has ended with that exception, has returned nothing and has made
\* no request after the failed one; change_location executes at most one
\* request, and search_images never has more than one request beyond the
\* pages it has read.
C12_NoRetry ==
    /\ executeFailed =>
        /\ pc = "idle"
        /\ error \in {Raise("TransportError", 153), Raise("TransportError", 101)}
        /\ result = << >>
        /\ Len(sent) = IF op = "search" THEN Len(pageLog) + 1 ELSE 1
    /\ op = "change" => Len(sent) <= 1
    /\ op = "search" => Len(sent) <= Len(pageLog) + 1

\* the query of the second page fails after the first page filled the index
C12_Witness ==
    /\ op = "search"
    /\ executeFailed
    /\ Len(sent) = 2
    /\ images # EmptyDict
    /\ result = << >>
    /\ error = Raise("TransportError", 153)

\* C13: an operation that has failed at the completeness check (line 172),
\* at an empty imageStudies list (line 158) or at an empty mutated array
\* (line 102) has ended and has left the session as get_client built it:
\* in every state after the construction the session is that session, and
\* after such a failure a call of search_images and a call of
\* change_location with the session are possible and pass to their request.
OperationFailed ==
    /\ pc = "idle"
    /\ error \in {Raise("AssertionError", 172), Raise("IndexError", 158),
                  Raise("IndexError", 102)}

C13_SessionKept ==
    /\ pc \notin {"start", "exchanged", "failed"} =>
        /\ session # << >>
        /\ session[1].authorization = Authorization(credentials[1])
        /\ session[1].url = "wss://" \o Secrets.server_name \o "/graphql"
    /\ OperationFailed =>
        /\ ENABLED (SearchCall /\ pc' = "send" /\ args'.session = session)
        /\ ENABLED (ChangeCall /\ pc' = "mutate" /\ args'.session = session)

\* a search has failed on an empty imageStudies list and the session is there
C13_Witness ==
    /\ OperationFailed
    /\ op = "search"
    /\ malformed
    /\ session # << >>

\* C14: cursor chaining.  The first query of a search carries the after the
\* caller passed; every later query carries the endCursor of the response
\* before it, is made only when that response has been folded and its
\* pageInfo read, and only if its hasNextPage was true; text and first are
\* those of the call in every query.
C14_CursorChain ==
    op = "search" =>
        /\ Len(sent) \in {Len(pageLog), Len(pageLog) + 1}
        /\ \A i \in 1..Len(sent) :
            LET q == sent[i].variable_values
            IN  /\ sent[i].kind = "query"
                /\ q.text = args.text
                /\ q.first = args.first
                /\ i = 1 => q.after = args.after
                /\ i > 1 => /\ pageLog[i - 1].hasNextPage
                            /\ q.after = pageLog[i - 1].endCursor

\* a second query whose cursor is the first response's and not the caller's
C14_Witness ==
    /\ op = "search"
    /\ Len(sent) = 2
    /\ args.after = "c1"
    /\ sent[1].variable_values.after = "c1"
    /\ pageLog[1].endCursor = "c2"
    /\ sent[2].variable_values.after = "c2"

\* C15: termination of the page walk.  Every page read before the last one
\* read had hasNextPage true; when a page with hasNextPage false has been
\* read the search has ended with exactly as many queries as pages; a search
\* that has ended while the last page read had hasNextPage true has ended
\* with an exception; and a search in its loop eventually ends, or stands
\* before the request that MaxPages withholds, the server still announcing
\* a next page (the loop itself has no bound).
LastPage == pageLog[Len(pageLog)]
InLoop == op = "search" /\ pc \in {"send", "await", "fold"}
Withheld ==
    /\ pc = "send"
    /\ Len(sent) = MaxPages
    /\ pageLog # << >>
    /\ LastPage.hasNextPage

C15_PageWalk ==
    op = "search" =>
        /\ \A i \in 1..(Len(pageLog) - 1) : pageLog[i].hasNextPage
        /\ (pageLog # << >> /\ ~LastPage.hasNextPage) =>
              (pc = "idle" /\ Len(sent) = Len(pageLog))
        /\ (pc = "idle" /\ pageLog # << >> /\ LastPage.hasNextPage) =>
              (error # NoError /\ result = << >>)
        /\ result # << >> => (pageLog # << >> /\ ~LastPage.hasNextPage)

C15_Terminates ==
    /\ []C15_PageWalk
    /\ InLoop ~> ((op = "search" /\ pc = "idle") \/ Withheld)

\* a search that has returned after two pages and two queries
C15_Witness ==
    /\ op = "search"
    /\ pc = "idle"
    /\ result # << >>
    /\ Len(pageLog) = 2
    /\ Len(sent) = 2
    /\ pageLog[1].hasNextPage
    /\ ~pageLog[2].hasNextPage

\* C17: precondition guard.  search_images called without a session, with a
\* missing or empty text or with a page size of 0, and change_location
\* called without a session, image_id or new_location, have failed at their
\* asserts with no request executed on the session and nothing returned.
C17_Preconditions ==
    /\ (op = "search"
          /\ (args.session = << >> \/ args.text \in {None, ""} \/ args.first = 0))
        => /\ pc = "idle"
           /\ error \in {Raise("AssertionError", 115), Raise("AssertionError", 116),
                         Raise("AssertionError", 117)}
           /\ sent = << >>
           /\ result = << >>
    /\ (op = "change"
          /\ (args.session = << >> \/ args.image_id \in {None, ""}
                \/ args.new_location \in {None, ""}))
        => /\ pc = "idle"
           /\ error \in {Raise("AssertionError", 79), Raise("AssertionError", 80),
                         Raise("AssertionError", 81)}
           /\ sent = << >>
           /\ result = << >>

\* a search called with a session, a text and a page size of 0
C17_Witness ==
    /\ op = "search"
    /\ args.session # << >>
    /\ args.text = "HE"
    /\ args.first = 0
    /\ error = Raise("AssertionError", 117)
    /\ sent = << >>

\* C16: two search_images calls interleaved on one session do not interfere.
\* In every state each call's vars hold its own text and first and the
\* cursor its own responses lead to, its index is the one the results served
\* to it alone give (per id the last of them), and when it has read its last
\* page it has returned that index if that page's totalCount is its size and
\* has failed otherwise, as the call does when it runs alone.
AloneIndex(c) ==
    [id \in DOMAIN calls[c].lastRec |->
        [location |-> calls[c].lastRec[id].location,
         studies |-> Studies(calls[c].lastRec[id].imageStudies[1].study)]]

C16_Private ==
    \A c \in Callers :
        LET k == calls[c]
        IN  /\ k.images = AloneIndex(c)
            /\ k.variable_values # EmptyDict =>
                  k.variable_values =
                      [text |-> k.args.text, first |-> k.args.first,
                       after |-> k.cursor]
            /\ k.total_count # << >> =>
                  IF k.total_count[1] = Cardinality(DOMAIN k.lastRec)
                    THEN k.result = <<AloneIndex(c)>> /\ k.error = NoError
                    ELSE k.result = << >> /\ k.error = Raise("AssertionError", 172)

\* both calls have returned, with different indexes, after responses reached
\* each of them while the other was waiting for one
C16_Witness ==
    /\ \A c \in Callers :
        /\ calls[c].pc = "done"
        /\ calls[c].result # << >>
        /\ calls[c].overlapped
        /\ calls[c].queries = 2
    /\ calls[1].result # calls[2].result
    /\ calls[1].result[1] # EmptyDict
    /\ calls[1].variable_values.after # calls[2].variable_values.after

====
